---- MODULE Spec2Model ----
(***************************************************************************)
(* Block-lifecycle protocol of the rollup node's Executor                  *)
(* (node/executor.go): RequestBlockData, CheckBlockData and DeliverBlock   *)
(* as invoked by the consensus driver, against an execution engine whose   *)
(* answers are nondeterministic and an L1 Syncer that appends to the       *)
(* message queue.                                                          *)
(***************************************************************************)
EXTENDS Integers, Sequences, FiniteSets, TLC

\* ------------------------------------------------------------------ bounds
\* longest message queue the Syncer builds
MaxQueue == 3
\* highest block number the execution engine imports
MaxHeight == 2
\* largest configured MaxL1MessageNumPerBlock
MaxCfg == 2
\* largest number of topics of a log
MaxTopics == 5
\* largest length of a log's data, in 32-byte words
MaxDataWords == 6
\* largest number of logs in a batch of receipts
MaxLogs == 4

VARIABLES
    syncer,                  \* Executor.syncer: "nil" (validator) or "ptr" (sequencer)
    latestProcessedL1Index,  \* Executor.latestProcessedL1Index
    maxL1MsgNumPerBlock,     \* Executor.maxL1MsgNumPerBlock
    queue,                   \* the Syncer's durable message queue, queue[i] has index i
    height,                  \* the execution engine's current block number
    imported,                \* header numbers of the blocks the engine imported, in order
    res,                     \* what the last callback did and returned
    ev,                      \* the log handed to UnmarshalDepositLogEvent
    shape,                   \* the numbers ev was laid out from
    out,                     \* what UnmarshalDepositLogEvent returned for ev
    changed,                 \* the field of an accepted log that was changed since
    receipts,                \* the batch handed to deriveFromReceipt
    derived                  \* what deriveFromReceipt returned for the batch

execVars ==
    <<syncer, latestProcessedL1Index, maxL1MsgNumPerBlock, queue, height, imported, res>>

syncVars == <<ev, shape, out, changed, receipts, derived>>

vars == <<execVars, syncVars>>

\* --------------------------------------------------- deposit log decoder
\* (sync/deposit_log.go)  A byte slice is a sequence of 0..255; a topic hash is
\* <<its first 12 bytes, its last 20 bytes>>, each part as one number.

\* DepositEventABIHash, the keccak256 of the event signature
DepositEventABIHash == <<77, 88>>

\* DepositEventVersion0 = common.Hash{}
DepositEventVersion0 == <<0, 0>>

\* Go's b[lo:hi] on a slice whose capacity is its length
Slice(b, lo, hi) == SubSeq(b, lo + 1, hi)

\* whether b[lo:hi] is within the slice
InBounds(b, lo, hi) == 0 <= lo /\ lo <= hi /\ hi <= Len(b)

\* uint256.Int.IsUint64 on a 32-byte big-endian word
IsUint64(w) == \A i \in 1..24 : w[i] = 0

\* uint256.Int.Uint64 on a 32-byte big-endian word: its low 8 bytes
Uint64(w) == SubSeq(w, 25, 32)

\* uint64(n) as 8 big-endian bytes, for n below 2^31
U64(n) ==
    <<0, 0, 0, 0, (n \div 16777216) % 256, (n \div 65536) % 256, (n \div 256) % 256,
      n % 256>>

\* a <= b on 8-byte big-endian values
RECURSIVE U64Leq(_, _)
U64Leq(a, b) ==
    IF a = <<>> THEN TRUE
    ELSE IF Head(a) /= Head(b) THEN Head(a) < Head(b)
    ELSE U64Leq(Tail(a), Tail(b))

\* a + n in uint64 arithmetic (the carry out of the top byte is dropped)
RECURSIVE U64Add(_, _)
U64Add(a, n) ==
    IF a = <<>> THEN <<>>
    ELSE LET t == a[Len(a)] + n
         IN  U64Add(SubSeq(a, 1, Len(a) - 1), t \div 256) \o <<t % 256>>

\* the number a big-endian byte string stands for (big.Int.SetBytes)
RECURSIVE BytesToInt(_)
BytesToInt(b) ==
    IF b = <<>> THEN 0
    ELSE 256 * BytesToInt(SubSeq(b, 1, Len(b) - 1)) + b[Len(b)]

\* common.BytesToAddress(topic[12:]): the last 20 bytes of the topic
TopicAddress(topic) == topic[2]

\* if len(ev.Topics) != 4
TopicCountWrong(e) == Len(e.Topics) /= 4

\* if ev.Topics[0] != DepositEventABIHash
SelectorWrong(e) == e.Topics[1] /= DepositEventABIHash

\* a length test that lets a one-word header through
DataTooShort_OneWord(e) == Len(e.Data) < 32

\* if len(ev.Data) < 64
DataTooShort(e) == Len(e.Data) < 64

\* if len(ev.Data)%32 != 0
DataNotWords(e) == Len(e.Data) % 32 /= 0

\* if !opaqueContentOffset.IsUint64() || opaqueContentOffset.Uint64() != 32
OffsetWrong(w) == ~IsUint64(w) \/ Uint64(w) /= U64(32)

\* a length test without the minimal-padding clause
LengthWrong_NoPaddingRule(w, rest) ==
    \/ ~IsUint64(w)
    \/ ~U64Leq(Uint64(w), U64(rest))

\* if !opaqueContentLength.IsUint64() || opaqueContentLength.Uint64() > uint64(len(ev.Data)-64)
\*    || opaqueContentLength.Uint64()+32 <= uint64(len(ev.Data)-64)
LengthWrong(w, rest) ==
    \/ ~IsUint64(w)
    \/ ~U64Leq(Uint64(w), U64(rest))
    \/ U64Leq(U64Add(Uint64(w), 32), U64(rest))

\* a version test that takes every version for version 0
VersionKnown_Any(version) == TRUE

\* switch version { case DepositEventVersion0: ... default: error }
VersionKnown(version) == version = DepositEventVersion0

\* a payload length test one byte short
V0TooShort_OffByOne(opaqueData) == Len(opaqueData) < 32 + 32 + 8

\* if len(opaqueData) < 32+32+8+1
V0TooShort(opaqueData) == Len(opaqueData) < 32 + 32 + 8 + 1

\* a recipient test with the flag read the other way round
HasRecipient_Inverted(flag) == flag /= 0

\* if opaqueData[offset] == 0 { message.To = &to }
HasRecipient(flag) == flag = 0

\* gas.IsUint64() for the number read from opaqueData[64:72]: a big-endian number
\* fits 64 bits when no byte in front of its last 8 is nonzero
GasIsUint64(gas) == \A i \in 1..(Len(gas) - 8) : gas[i] = 0

\* a queue index taken from the log: the low byte of the mint word
QueueIndexOf_FromLog(opaqueData) == opaqueData[32]

\* message.QueueIndex = 0 // todo
QueueIndexOf(opaqueData) == 0

DecodeErr(class) == [kind |-> "err", err |-> class]

\* an index or slice expression out of range: the Go runtime panics
DecodePanic == [kind |-> "panic", err |-> "index out of range"]

\* unmarshalDepositVersion0(to, opaqueData)
unmarshalDepositVersion0(to, opaqueData) ==
    IF V0TooShort(opaqueData) THEN DecodeErr("v0length")
    ELSE IF ~InBounds(opaqueData, 0, 73) THEN DecodePanic
    ELSE
      LET value == BytesToInt(Slice(opaqueData, 32, 64))
          gas == Slice(opaqueData, 64, 72)
          offset == 73
          txDataLen == Len(opaqueData) - offset
      IN  IF ~GasIsUint64(gas) THEN DecodeErr("gas")
          ELSE [kind |-> "msg",
                msg |-> [QueueIndex |-> QueueIndexOf(opaqueData),
                         Gas |-> BytesToInt(gas),
                         To |-> IF HasRecipient(opaqueData[73]) THEN <<to>> ELSE <<>>,
                         Value |-> value,
                         Data |-> Slice(opaqueData, offset, offset + txDataLen),
                         Sender |-> 0]]

\* UnmarshalDepositLogEvent(ev)
UnmarshalDepositLogEvent(e) ==
    IF TopicCountWrong(e) THEN DecodeErr("topics")
    ELSE IF Len(e.Topics) < 1 THEN DecodePanic
    ELSE IF SelectorWrong(e) THEN DecodeErr("selector")
    ELSE IF DataTooShort(e) THEN DecodeErr("short")
    ELSE IF DataNotWords(e) THEN DecodeErr("words")
    ELSE IF Len(e.Topics) < 4 \/ ~InBounds(e.Data, 0, 32) THEN DecodePanic
    ELSE
      LET to == TopicAddress(e.Topics[3])
          version == e.Topics[4]
          opaqueContentOffset == Slice(e.Data, 0, 32)
      IN  IF OffsetWrong(opaqueContentOffset) THEN DecodeErr("offset")
          ELSE IF ~InBounds(e.Data, 32, 64) THEN DecodePanic
          ELSE
            LET opaqueContentLength == Slice(e.Data, 32, 64) IN
            IF LengthWrong(opaqueContentLength, Len(e.Data) - 64) THEN DecodeErr("length")
            ELSE IF ~InBounds(e.Data, 64, 64 + BytesToInt(Uint64(opaqueContentLength)))
                 THEN DecodePanic
            ELSE
              LET opaqueData ==
                      Slice(e.Data, 64, 64 + BytesToInt(Uint64(opaqueContentLength)))
              IN  IF VersionKnown(version)
                  THEN LET tx == unmarshalDepositVersion0(to, opaqueData)
                       IN  IF tx.kind = "err" THEN DecodeErr("v0:" \o tx.err) ELSE tx
                  ELSE DecodeErr("version")

\* types.ReceiptStatusSuccessful and types.ReceiptStatusFailed
ReceiptStatusSuccessful == 1
ReceiptStatusFailed == 0

\* a failure branch that gives up the messages collected so far
LogFailed_DropsMessages(acc, entry) == [out |-> <<>>, result |-> Append(acc.result, entry)]

\* result = multierror.Append(result, fmt.Errorf("... receipt %d, log %d: %w", i, j, err))
LogFailed(acc, entry) == [acc EXCEPT !.result = Append(@, entry)]

\* out = append(out, L1Message{L1MessageTx: *msg, L1Height: lg.BlockNumber, L1TxHash: lg.TxHash})
LogDecoded(acc, msg, lg) ==
    [acc EXCEPT !.out = Append(@, [L1MessageTx |-> msg, L1Height |-> lg.BlockNumber,
                                   L1TxHash |-> lg.TxHash])]

\* a filter that takes the event of any contract
IsDepositLog_AnyContract(lg, depositContractAddr) ==
    /\ Len(lg.Topics) > 0
    /\ lg.Topics[1] = DepositEventABIHash

\* lg.Address == depositContractAddr && len(lg.Topics) > 0 && lg.Topics[0] == DepositEventABIHash
IsDepositLog(lg, depositContractAddr) ==
    /\ lg.Address = depositContractAddr
    /\ Len(lg.Topics) > 0
    /\ lg.Topics[1] = DepositEventABIHash

\* the inner loop of deriveFromReceipt over rec.Logs, from log j (counted from 0)
RECURSIVE deriveFromLogs(_, _, _, _, _)
deriveFromLogs(logs, i, j, depositContractAddr, acc) ==
    IF j >= Len(logs) THEN acc
    ELSE
      LET lg == logs[j + 1]
          dec == UnmarshalDepositLogEvent(lg)
          after ==
              IF ~IsDepositLog(lg, depositContractAddr) THEN acc
              ELSE IF dec.kind = "msg" THEN LogDecoded(acc, dec.msg, lg)
              ELSE LogFailed(acc, [receipt |-> i, log |-> j, err |-> dec.err])
      IN  deriveFromLogs(logs, i, j + 1, depositContractAddr, after)

\* the outer loop of deriveFromReceipt, from receipt i (counted from 0)
RECURSIVE deriveFromReceipts(_, _, _, _)
deriveFromReceipts(recs, i, depositContractAddr, acc) ==
    IF i >= Len(recs) THEN acc
    ELSE
      LET rec == recs[i + 1]
          after ==
              IF rec.Status /= ReceiptStatusSuccessful THEN acc
              ELSE deriveFromLogs(rec.Logs, i, 0, depositContractAddr, acc)
      IN  deriveFromReceipts(recs, i + 1, depositContractAddr, after)

\* deriveFromReceipt(receipts, depositContractAddr)
deriveFromReceipt(recs, depositContractAddr) ==
    deriveFromReceipts(recs, 0, depositContractAddr, [out |-> <<>>, result |-> <<>>])

\* ------------------------------------------------------------ logs decoded
\* A 32-byte word is laid out from [over, n]: byte 0 is over (a nonzero over puts
\* the value above 64 bits) and the low 8 bytes hold n, n = -1 for 2^64 - 1.
WordShape(over, n) == [over |-> over, n |-> n]

Word(ws) ==
    <<ws.over>> \o [i \in 1..23 |-> 0]
        \o (IF ws.n = -1 THEN [i \in 1..8 |-> 255] ELSE U64(ws.n))

\* byte i (from 0) of the bytes behind the two header words: mint 3, value 5,
\* gas 258, the creation flag, then call data whose bytes tell their position
BodyByte(i, flag) ==
    CASE i = 31 -> 3
      [] i = 63 -> 5
      [] i = 70 -> 1
      [] i = 71 -> 2
      [] i = 72 -> flag
      [] i > 72 -> 1 + (i % 250)
      [] OTHER -> 0

LogData(sh) ==
    LET body == [i \in 1..(IF sh.D > 64 THEN sh.D - 64 ELSE 0) |-> BodyByte(i - 1, sh.flag)]
    IN  SubSeq(Word(sh.off) \o Word(sh.len) \o body, 1, sh.D)

\* the sender, recipient and version topics; the recipient topic has nonzero
\* bytes in front of its address
FromTopic == <<0, 11>>
ToTopic == <<5, 22>>
VersionTopic(v) == IF v = 2 THEN <<1, 0>> ELSE <<0, v>>

LogTopics(sh) ==
    [i \in 1..sh.nTopics |->
        CASE i = 1 -> (IF sh.sel THEN DepositEventABIHash ELSE <<77, 89>>)
          [] i = 2 -> FromTopic
          [] i = 3 -> ToTopic
          [] i = 4 -> VersionTopic(sh.version)
          [] OTHER -> <<0, 99>>]

Log(sh) == [Topics |-> LogTopics(sh), Data |-> LogData(sh)]

TopicCounts == {0} \cup 3..MaxTopics
DataLengths == {32 * k : k \in 0..MaxDataWords} \cup {63, 100}
OffsetWords == {WordShape(0, 32), WordShape(0, 0), WordShape(0, 64), WordShape(1, 32)}
LengthWords ==
    {WordShape(0, n) : n \in (0..1) \cup (72..74)
                              \cup {32 * k + j : k \in 1..(MaxDataWords - 2), j \in 0..1}}
        \cup {WordShape(0, -1), WordShape(1, 73)}
Versions == 0..2
Flags == {0, 1, 255}

Shapes ==
    [nTopics : TopicCounts, sel : BOOLEAN, version : Versions, D : DataLengths,
     off : OffsetWords, len : LengthWords, flag : Flags]

NoShape ==
    [nTopics |-> 0, sel |-> FALSE, version |-> 0, D |-> 0, off |-> WordShape(0, 0),
     len |-> WordShape(0, 0), flag |-> 0]
NoLog == Log(NoShape)
NoOut == [kind |-> "none"]
NoDerived == [done |-> FALSE, out |-> <<>>, result |-> <<>>]

\* the deposit contract's address and another contract's
DepositContract == 40
OtherContract == 41

\* a well-formed version-0 deposit with one byte of call data
GoodShape ==
    [nTopics |-> 4, sel |-> TRUE, version |-> 0, D |-> 160, off |-> WordShape(0, 32),
     len |-> WordShape(0, 74), flag |-> 0]

\* the logs a batch is made of
LogKinds == {"good", "badOffset", "badVersion", "foreign", "otherEvent", "noTopics"}

KindShape(kind) ==
    CASE kind = "badOffset" -> [GoodShape EXCEPT !.off = WordShape(0, 64)]
      [] kind = "badVersion" -> [GoodShape EXCEPT !.version = 1]
      [] kind = "otherEvent" -> [GoodShape EXCEPT !.sel = FALSE]
      [] kind = "noTopics" -> [GoodShape EXCEPT !.nTopics = 0]
      [] OTHER -> GoodShape

\* the log of a kind, as log number p of its batch; its transaction hash is p and
\* its block number 100 + p
BatchLog(kind, p) ==
    [Address |-> IF kind = "foreign" THEN OtherContract ELSE DepositContract,
     Topics |-> LogTopics(KindShape(kind)), Data |-> LogData(KindShape(kind)),
     BlockNumber |-> 100 + p, TxHash |-> p]

\* a batch of two receipts: the first has the logs up to cut (half of them or all
\* of them), the second the rest
Batch(b) ==
    LET logs == [p \in 1..Len(b.kinds) |-> BatchLog(b.kinds[p], p)]
    IN  <<[Status |-> b.status[1], Logs |-> SubSeq(logs, 1, b.cut)],
          [Status |-> b.status[2], Logs |-> SubSeq(logs, b.cut + 1, Len(logs))]>>

Batches ==
    UNION {[kinds : [1..n -> LogKinds], cut : {n \div 2, n},
            status : [1..2 -> {ReceiptStatusSuccessful, ReceiptStatusFailed}]]
           : n \in 0..MaxLogs}

\* ------------------------------------------------------------- data model
\* a nil byte slice; every non-nil slice is a sequence of naturals
NilBytes == <<-1>>

\* the deposit payload carried by the message the Syncer stores at index i
QueueData(i) == i % 2

L1Msg(i, d) == [QueueIndex |-> i, Data |-> d]

\* eth.NewTx(&l1Message.L1MessageTx), in its binary form (type byte 0x7E first)
L1Tx(m) == <<126, m.QueueIndex, m.Data>>

\* a transaction the engine admits from its own pool
L2Tx == <<2, 9>>

isL1MessageTxType(tx) == Len(tx) > 0 /\ tx[1] = 126

RECURSIVE WrapL1Messages(_)
WrapL1Messages(l1Messages) ==
    IF l1Messages = <<>> THEN <<>>
    ELSE <<L1Tx(Head(l1Messages))>> \o WrapL1Messages(Tail(l1Messages))

RECURSIVE CountL1Txs(_)
CountL1Txs(txs) ==
    IF txs = <<>> THEN 0
    ELSE (IF isL1MessageTxType(Head(txs)) THEN 1 ELSE 0) + CountL1Txs(Tail(txs))

\* ---------------------------------------------------------- wire encodings
\* types.BLSMessage.MarshalBinary: six fixed fields, in order
BLSMarshal(bm) ==
    <<bm.ParentHash, bm.Miner, bm.Number, bm.GasLimit, bm.BaseFee, bm.Timestamp>>

NoBLS == [ParentHash |-> 0, Miner |-> 0, Number |-> 0, GasLimit |-> 0,
          BaseFee |-> 0, Timestamp |-> 0]

\* types.BLSMessage.UnmarshalBinary: [ok, v]; the layout is fixed and carries no tag
BLSUnmarshal(b) ==
    IF b = NilBytes \/ Len(b) /= 6 THEN [ok |-> FALSE, v |-> NoBLS]
    ELSE [ok |-> TRUE,
          v |-> [ParentHash |-> b[1], Miner |-> b[2], Number |-> b[3],
                 GasLimit |-> b[4], BaseFee |-> b[5], Timestamp |-> b[6]]]

RECURSIVE FlattenMsgs(_)
FlattenMsgs(ms) ==
    IF ms = <<>> THEN <<>>
    ELSE <<Head(ms).QueueIndex, Head(ms).Data>> \o FlattenMsgs(Tail(ms))

\* types.NonBLSMessage.MarshalBinary: five fixed fields, the message count, the messages
NonBLSMarshal(nbm) ==
    <<nbm.StateRoot, nbm.GasUsed, nbm.ReceiptRoot, nbm.LogsBloom, nbm.Extra,
      Len(nbm.L1Messages)>> \o FlattenMsgs(nbm.L1Messages)

NoNonBLS == [StateRoot |-> 0, GasUsed |-> 0, ReceiptRoot |-> 0, LogsBloom |-> 0,
             Extra |-> 0, L1Messages |-> <<>>]

\* types.NonBLSMessage.UnmarshalBinary: [ok, v]
NonBLSUnmarshal(b) ==
    IF b = NilBytes \/ Len(b) < 6 THEN [ok |-> FALSE, v |-> NoNonBLS]
    ELSE IF Len(b) /= 6 + 2 * b[6] THEN [ok |-> FALSE, v |-> NoNonBLS]
    ELSE [ok |-> TRUE,
          v |-> [StateRoot |-> b[1], GasUsed |-> b[2], ReceiptRoot |-> b[3],
                 LogsBloom |-> b[4], Extra |-> b[5],
                 L1Messages |-> [k \in 1..b[6] |->
                                    L1Msg(b[6 + 2 * k - 1], b[6 + 2 * k])]]]

\* ------------------------------------------------------------------ Syncer
\* Syncer.ReadL1MessagesInRange(from, to): the durable entries with index in from..to
ReadL1MessagesInRange(from, to) ==
    LET lo == IF from < 1 THEN 1 ELSE from
        hi == IF to < Len(queue) THEN to ELSE Len(queue)
    IN  IF lo > hi THEN <<>> ELSE SubSeq(queue, lo, hi)

\* the Syncer's polling task appends the next decoded deposit to the queue
SyncerAppend ==
    /\ syncer = "ptr"
    /\ Len(queue) < MaxQueue
    /\ queue' = Append(queue, L1Msg(Len(queue) + 1, QueueData(Len(queue) + 1)))
    /\ UNCHANGED <<syncer, latestProcessedL1Index, maxL1MsgNumPerBlock, height,
                   imported, res>>
    /\ UNCHANGED syncVars

\* ---------------------------------------------------------------- Executor
NoCalls == [assemble |-> 0, validate |-> 0, blockNumber |-> 0, newL2Block |-> 0]

NoRes ==
    [op |-> "none", err |-> "nil", panic |-> FALSE, calls |-> NoCalls,
     arg |-> 0, in |-> <<>>, txs |-> <<>>, l2Config |-> NilBytes, zkConfig |-> NilBytes,
     read |-> <<>>, assembled |-> <<>>, bmOk |-> FALSE, bm |-> NoBLS,
     nbmOk |-> FALSE, nbm |-> NoNonBLS, valid |-> FALSE, ret |-> 0,
     candOk |-> FALSE, candTxs |-> <<>>, rpcErr |-> "none",
     pre |-> [idx |-> 0, height |-> 0, qlen |-> 0]]

\* the cursor, the engine height and the queue length a call starts from
Pre == [idx |-> latestProcessedL1Index, height |-> height, qlen |-> Len(queue)]

\* no log and no batch is being decoded
SyncIdle ==
    /\ ev = NoLog
    /\ shape = NoShape
    /\ out = NoOut
    /\ changed = "none"
    /\ receipts = <<>>
    /\ derived = NoDerived

\* NewSequencerExecutor / NewExecutor
Init ==
    /\ syncer \in {"nil", "ptr"}
    /\ latestProcessedL1Index = 0
    /\ maxL1MsgNumPerBlock \in (IF syncer = "ptr" THEN 1..MaxCfg ELSE {0})
    /\ queue = <<>>
    /\ height = 0
    /\ imported = <<>>
    /\ res = NoRes
    /\ SyncIdle

\* RequestBlockData without its role check
RequestNotAllowed_NoCheck == FALSE

\* if e.syncer == nil
RequestNotAllowed == syncer = "nil"

\* a range that starts at the cursor itself
RequestRange_FromCursor ==
    <<latestProcessedL1Index, latestProcessedL1Index + maxL1MsgNumPerBlock>>

\* the index range RequestBlockData asks the Syncer for
RequestRange ==
    <<latestProcessedL1Index + 1, latestProcessedL1Index + maxL1MsgNumPerBlock>>

\* authClient.AssembleL2Block: the candidate the engine answers with
AssembledBlock(h, transactions, eng) ==
    [ParentHash |-> 11, Miner |-> 12, Number |-> h, GasLimit |-> 13, BaseFee |-> 14,
     Timestamp |-> 15, StateRoot |-> 21, GasUsed |-> 22, ReceiptRoot |-> 23,
     LogsBloom |-> 24, Extra |-> 25,
     Transactions |-> (IF eng.l1 THEN transactions ELSE <<>>)
                         \o (IF eng.extra THEN <<L2Tx>> ELSE <<>>)]

\* RequestBlockData without its empty-candidate return
NoProposal_Never(l2Block) == FALSE

\* if len(l2Block.Transactions) == 0
NoProposal(l2Block) == Len(l2Block.Transactions) = 0

\* the body of RequestBlockData: the result record of one call
RequestResult(h, eng) ==
    LET base == [NoRes EXCEPT !.op = "Request", !.arg = h, !.pre = Pre]
    IN  IF RequestNotAllowed THEN [base EXCEPT !.err = "NotAllowed"]
        ELSE IF syncer = "nil" THEN [base EXCEPT !.panic = TRUE]
        ELSE
          LET l1Messages == ReadL1MessagesInRange(RequestRange[1], RequestRange[2])
              transactions == WrapL1Messages(l1Messages)
              called == [base EXCEPT !.read = RequestRange,
                                     !.assembled = transactions,
                                     !.calls.assemble = 1]
              l2Block == AssembledBlock(h, transactions, eng)
              bm == [ParentHash |-> l2Block.ParentHash, Miner |-> l2Block.Miner,
                     Number |-> l2Block.Number, GasLimit |-> l2Block.GasLimit,
                     BaseFee |-> l2Block.BaseFee, Timestamp |-> l2Block.Timestamp]
              nbm == [StateRoot |-> l2Block.StateRoot, GasUsed |-> l2Block.GasUsed,
                      ReceiptRoot |-> l2Block.ReceiptRoot,
                      LogsBloom |-> l2Block.LogsBloom, Extra |-> l2Block.Extra,
                      L1Messages |-> l1Messages]
              got == [called EXCEPT !.candOk = TRUE,
                                    !.candTxs = l2Block.Transactions]
          IN  IF eng.err THEN [called EXCEPT !.err = "Assemble", !.rpcErr = "assemble"]
              ELSE IF NoProposal(l2Block) THEN got
              ELSE [got EXCEPT !.l2Config = BLSMarshal(bm), !.bmOk = TRUE, !.bm = bm,
                                  !.zkConfig = NonBLSMarshal(nbm), !.nbmOk = TRUE,
                                  !.nbm = nbm,
                                  !.txs = l2Block.Transactions]

RequestBlockData ==
    /\ res.op = "none"
    /\ \E h \in 0..(MaxHeight + 1),
          eng \in [err : BOOLEAN, l1 : BOOLEAN, extra : BOOLEAN] :
           /\ res' = RequestResult(h, eng)
           /\ UNCHANGED <<syncer, latestProcessedL1Index, maxL1MsgNumPerBlock, queue,
                          height, imported>>
           /\ UNCHANGED syncVars

\* an empty-input test that looks at the transaction list alone
EmptyInput_TxsOnly(txs, l2Config, zkConfig) == Len(txs) = 0

\* if len(txs) == 0 || l2Config == nil || zkConfig == nil
EmptyInput(txs, l2Config, zkConfig) ==
    Len(txs) = 0 \/ l2Config = NilBytes \/ zkConfig = NilBytes

\* if e.syncer == nil, at the head of CheckBlockData
CheckNotAllowed == syncer = "nil"

\* bm.UnmarshalBinary(zkConfig) in CheckBlockData and DeliverBlock
DecodeHeader(l2Config, zkConfig) == BLSUnmarshal(zkConfig)

\* nbm.UnmarshalBinary(l2Config) in CheckBlockData and DeliverBlock
DecodePayload(l2Config, zkConfig) == NonBLSUnmarshal(l2Config)

\* Executor.validateL1Messages(txs, nbm): TRUE when it returns an error, which is
\* when the declared list is not the queue's slice from latestProcessedL1Index+1,
\* at most maxL1MsgNumPerBlock long
validateL1MessagesFails(txs, nbm) ==
    LET n == Len(nbm.L1Messages)
    IN  \/ n > maxL1MsgNumPerBlock
        \/ nbm.L1Messages /=
              ReadL1MessagesInRange(latestProcessedL1Index + 1, latestProcessedL1Index + n)

\* the body of CheckBlockData: the result record of one call;
\* validate is the engine's answer: "err", "true" or "false"
CheckResult(txs, l2Config, zkConfig, validate) ==
    LET base == [NoRes EXCEPT !.op = "Check", !.pre = Pre,
                              !.in = <<txs, l2Config, zkConfig>>]
        bm == DecodeHeader(l2Config, zkConfig)
        nbm == DecodePayload(l2Config, zkConfig)
    IN  IF CheckNotAllowed THEN [base EXCEPT !.err = "NotAllowed"]
        ELSE IF EmptyInput(txs, l2Config, zkConfig) THEN base
        ELSE IF ~bm.ok THEN [base EXCEPT !.err = "Decode"]
        ELSE IF ~nbm.ok THEN [base EXCEPT !.err = "Decode", !.bmOk = TRUE, !.bm = bm.v]
        ELSE
          LET dec == [base EXCEPT !.bmOk = TRUE, !.bm = bm.v,
                                  !.nbmOk = TRUE, !.nbm = nbm.v]
          IN  IF syncer = "nil" THEN [dec EXCEPT !.panic = TRUE]
              ELSE IF validateL1MessagesFails(txs, nbm.v)
                   THEN [dec EXCEPT !.err = "L1Messages"]
              ELSE IF validate = "err"
                   THEN [dec EXCEPT !.calls.validate = 1, !.err = "Validate",
                                    !.rpcErr = "validate"]
              ELSE [dec EXCEPT !.calls.validate = 1, !.valid = (validate = "true")]

\* what a caller can hand to CheckBlockData and DeliverBlock
Header(n) ==
    [ParentHash |-> 11, Miner |-> 12, Number |-> n, GasLimit |-> 13, BaseFee |-> 14,
     Timestamp |-> 15]

Payload(ms) ==
    [StateRoot |-> 21, GasUsed |-> 22, ReceiptRoot |-> 23, LogsBloom |-> 24,
     Extra |-> 25, L1Messages |-> ms]

MsgRange(a, n) == [k \in 1..n |-> L1Msg(a + k - 1, QueueData(a + k - 1))]

\* contiguous slices, one with a gap, one whose content differs from the queue's
InputLists ==
    {MsgRange(a, n) : a \in 1..MaxQueue, n \in 0..MaxCfg}
        \cup {<<L1Msg(1, QueueData(1)), L1Msg(3, QueueData(3))>>,
              <<L1Msg(1, 1 - QueueData(1))>>}

HeaderBytes == {BLSMarshal(Header(n)) : n \in 0..(MaxHeight + 1)}

PayloadBytes == {NonBLSMarshal(Payload(ms)) : ms \in InputLists}

TxsInputs ==
    {<<>>, <<L2Tx>>, WrapL1Messages(MsgRange(1, 1)),
     WrapL1Messages(MsgRange(1, MaxCfg)) \o <<L2Tx>>}

\* <<l2Config, zkConfig>>: well-formed in the order the callee decodes, absent or
\* truncated, and in the order RequestBlockData returns
ConfigInputs ==
    (PayloadBytes \X HeaderBytes)
        \cup {<<NilBytes, BLSMarshal(Header(1))>>,
              <<NonBLSMarshal(Payload(<<>>)), NilBytes>>,
              <<<<7>>, BLSMarshal(Header(1))>>,
              <<NonBLSMarshal(Payload(<<>>)), <<>>>>}
        \cup (HeaderBytes \X {NonBLSMarshal(Payload(ms)) : ms \in {<<>>, MsgRange(1, 1)}})

CheckBlockData ==
    /\ res.op = "none"
    /\ \E txs \in TxsInputs, cfg \in ConfigInputs, validate \in {"err", "true", "false"} :
           /\ res' = CheckResult(txs, cfg[1], cfg[2], validate)
           /\ UNCHANGED <<syncer, latestProcessedL1Index, maxL1MsgNumPerBlock, queue,
                          height, imported>>
           /\ UNCHANGED syncVars

\* a check that turns away stale blocks only and lets a gap through
WrongBlockNumber_StaleOnly(h, bm) == h + 1 > bm.Number

\* if height+1 != bm.Number
WrongBlockNumber(h, bm) == h + 1 /= bm.Number

\* an import call that is made a second time when it fails
ImportCall_Retry(r, ok) ==
    IF ok THEN [r EXCEPT !.calls.newL2Block = 1]
    ELSE [r EXCEPT !.calls.newL2Block = 2, !.err = "Import", !.rpcErr = "newL2Block"]

\* err = e.authClient.NewL2Block(...); if err != nil { return currentBlockNumber, err }
ImportCall(r, ok) ==
    IF ok THEN [r EXCEPT !.calls.newL2Block = 1]
    ELSE [r EXCEPT !.calls.newL2Block = 1, !.err = "Import", !.rpcErr = "newL2Block"]

\* a DeliverBlock that goes on to its bookkeeping whatever the import call answered
Imported_IgnoreErr(r) == r.calls.newL2Block >= 1

\* DeliverBlock got past the import call: the call was made and returned no error
Imported(r) == r.calls.newL2Block >= 1 /\ r.err = "nil"

\* Executor.updateLatestProcessedL1Index(txs): the cursor after the call
updateLatestProcessedL1Index(txs) == latestProcessedL1Index + CountL1Txs(txs)

\* the body of DeliverBlock: the result record of one call and whether the
\* block was imported; eng.height is whether the height query answers,
\* eng.import whether the import does
DeliverResult(txs, l2Config, zkConfig, eng) ==
    LET base == [NoRes EXCEPT !.op = "Deliver", !.pre = Pre,
                              !.in = <<txs, l2Config, zkConfig>>,
                              !.calls.blockNumber = 1]
        cur == [base EXCEPT !.ret = height]
        bm == DecodeHeader(l2Config, zkConfig)
        nbm == DecodePayload(l2Config, zkConfig)
    IN  IF ~eng.height THEN [base EXCEPT !.err = "BlockNumber",
                                         !.rpcErr = "blockNumber"]
        ELSE IF EmptyInput(txs, l2Config, zkConfig) THEN cur
        ELSE IF ~bm.ok THEN [cur EXCEPT !.err = "Decode"]
        ELSE IF ~nbm.ok THEN [cur EXCEPT !.err = "Decode", !.bmOk = TRUE, !.bm = bm.v]
        ELSE
          LET dec == [cur EXCEPT !.bmOk = TRUE, !.bm = bm.v,
                                 !.nbmOk = TRUE, !.nbm = nbm.v]
          IN  IF WrongBlockNumber(height, bm.v)
                   THEN [dec EXCEPT !.err = "WrongBlockNumber"]
              ELSE ImportCall(dec, eng.import)

\* the height DeliverBlock returns after a successful import
DeliverReturn(currentBlockNumber, bm) == currentBlockNumber

DeliverBlock ==
    /\ res.op = "none"
    /\ \E txs \in TxsInputs, cfg \in ConfigInputs,
          eng \in [height : BOOLEAN,
                   import : IF height < MaxHeight THEN BOOLEAN ELSE {FALSE}] :
           LET r == DeliverResult(txs, cfg[1], cfg[2], eng)
               engineImported == r.calls.newL2Block >= 1 /\ r.rpcErr = "none"
           IN  /\ res' = (IF Imported(r)
                          THEN [r EXCEPT !.ret = DeliverReturn(height, r.bm)]
                          ELSE r)
               /\ height' = (IF engineImported THEN r.bm.Number ELSE height)
               /\ imported' = (IF engineImported THEN Append(imported, r.bm.Number)
                               ELSE imported)
               /\ latestProcessedL1Index' =
                     (IF Imported(r) THEN updateLatestProcessedL1Index(txs)
                      ELSE latestProcessedL1Index)
               /\ UNCHANGED <<syncer, maxL1MsgNumPerBlock, queue>>
               /\ UNCHANGED syncVars

\* the callback has returned; the consensus driver, which serializes its calls,
\* takes the result and is free to make the next call
DriverReturn ==
    /\ res.op /= "none"
    /\ res' = NoRes
    /\ UNCHANGED <<syncer, latestProcessedL1Index, maxL1MsgNumPerBlock, queue, height,
                   imported>>
    /\ UNCHANGED syncVars

Next ==
    \/ SyncerAppend
    \/ RequestBlockData
    \/ CheckBlockData
    \/ DeliverBlock
    \/ DriverReturn

Spec == Init /\ [][Next]_vars

\* ------------------------------------------------------- decoding a log
\* the caller hands the decoder one more field of an accepted log changed
Change(field, sh) ==
    /\ out.kind = "msg"
    /\ changed = "none"
    /\ sh /= shape
    /\ shape' = sh
    /\ ev' = Log(sh)
    /\ out' = NoOut
    /\ changed' = field
    /\ receipts' = <<>>
    /\ derived' = NoDerived
    /\ UNCHANGED execVars

ChangeTopicCount == \E n \in TopicCounts : Change("topics", [shape EXCEPT !.nTopics = n])
ChangeOffsetWord == \E w \in OffsetWords : Change("offset", [shape EXCEPT !.off = w])
ChangeLengthWord == \E w \in LengthWords : Change("length", [shape EXCEPT !.len = w])
ChangeVersionTopic == \E v \in Versions : Change("version", [shape EXCEPT !.version = v])

\* the decoder is applied to the log
Unmarshal ==
    /\ out.kind = "none"
    /\ out' = UnmarshalDepositLogEvent(ev)
    /\ UNCHANGED <<ev, shape, changed, receipts, derived>>
    /\ UNCHANGED execVars

\* the log, once decoded on its own, is derived as the one log of a batch
DeriveOne ==
    /\ out.kind /= "none"
    /\ ~derived.done
    /\ receipts' = <<[Status |-> ReceiptStatusSuccessful,
                      Logs |-> <<[Address |-> DepositContract, Topics |-> ev.Topics,
                                  Data |-> ev.Data, BlockNumber |-> 100 + 1,
                                  TxHash |-> 1]>>]>>
    /\ derived' = [done |-> TRUE] @@ deriveFromReceipt(receipts', DepositContract)
    /\ UNCHANGED <<ev, shape, out, changed>>
    /\ UNCHANGED execVars

\* the executor of a process that only decodes
ExecIdle ==
    /\ syncer = "nil"
    /\ latestProcessedL1Index = 0
    /\ maxL1MsgNumPerBlock = 0
    /\ queue = <<>>
    /\ height = 0
    /\ imported = <<>>
    /\ res = NoRes

InitDecode ==
    /\ shape \in Shapes
    /\ ev = Log(shape)
    /\ out = NoOut
    /\ changed = "none"
    /\ receipts = <<>>
    /\ derived = NoDerived
    /\ ExecIdle

NextDecode ==
    \/ Unmarshal
    \/ DeriveOne
    \/ ChangeTopicCount
    \/ ChangeOffsetWord
    \/ ChangeLengthWord
    \/ ChangeVersionTopic

SpecDecode == InitDecode /\ [][NextDecode]_vars

\* ---------------------------------------------------- deriving a batch
\* the batch is derived
Derive ==
    /\ ~derived.done
    /\ derived' = [done |-> TRUE] @@ deriveFromReceipt(receipts, DepositContract)
    /\ UNCHANGED <<ev, shape, out, changed, receipts>>
    /\ UNCHANGED execVars

InitDerive ==
    /\ shape \in Batches
    /\ receipts = Batch(shape)
    /\ derived = NoDerived
    /\ ev = NoLog
    /\ out = NoOut
    /\ changed = "none"
    /\ ExecIdle

NextDerive == Derive

SpecDerive == InitDerive /\ [][NextDerive]_vars

\* ------------------------------------------------------------------ claims
\* the last call was handed three non-empty arguments
NonEmptyIn ==
    /\ Len(res.in) = 3
    /\ Len(res.in[1]) > 0
    /\ res.in[2] /= NilBytes
    /\ res.in[3] /= NilBytes

\* the last call left the cursor and the engine height where they were
StateUntouched ==
    /\ latestProcessedL1Index = res.pre.idx
    /\ height = res.pre.height

\* the last call was a DeliverBlock whose import call succeeded
Delivered == res.op = "Deliver" /\ res.calls.newL2Block = 1 /\ res.err = "nil"

C2_ReturnsNewHeight ==
    Delivered => (res.ret = res.bm.Number /\ res.ret = res.pre.height + 1)

\* C3: after a DeliverBlock whose import succeeded, latestProcessedL1Index has
\* grown by exactly the number of L1 messages in the decoded ExtendedPayload.
C3_AdvanceByPayloadCount ==
    Delivered =>
        latestProcessedL1Index = res.pre.idx + Len(res.nbm.L1Messages)

\* C4: RequestBlockData on an Executor without a Syncer returns the not-allowed
\* error with empty outputs, does not touch the Syncer or the engine, and leaves
\* the Executor state unchanged.
C4_ValidatorRequestRejected ==
    (res.op = "Request" /\ syncer = "nil")
        => (/\ res.err = "NotAllowed"
            /\ ~res.panic
            /\ res.txs = <<>> /\ res.l2Config = NilBytes /\ res.zkConfig = NilBytes
            /\ res.read = <<>>
            /\ res.calls = NoCalls
            /\ StateUntouched)

C4_Witness == res.op = "Request" /\ syncer = "nil" /\ res.err = "NotAllowed"

\* C5: CheckBlockData on an Executor without a Syncer is never rejected with the
\* not-allowed error.
C5_CheckAllowedInEitherRole ==
    (res.op = "Check" /\ syncer = "nil") => res.err /= "NotAllowed"

\* C6: the three values of a non-empty RequestBlockData result, handed in the same
\* argument positions to CheckBlockData and DeliverBlock, decode there to the
\* header and the payload that RequestBlockData serialized.
C6_WireRoundTrip ==
    (res.op = "Request" /\ res.err = "nil" /\ Len(res.txs) > 0)
        => (/\ DecodeHeader(res.l2Config, res.zkConfig) = [ok |-> TRUE, v |-> res.bm]
            /\ DecodePayload(res.l2Config, res.zkConfig) = [ok |-> TRUE, v |-> res.nbm])

\* the declared L1-message list of the last call's payload is not the local
\* queue's slice after the cursor, or is longer than the per-block maximum
DeclaredListMismatch ==
    LET ms == res.nbm.L1Messages
        from == res.pre.idx + 1
    IN  \/ Len(ms) > maxL1MsgNumPerBlock
        \/ (Len(ms) > 0 /\ res.pre.idx + Len(ms) > res.pre.qlen)
        \/ \E k \in 1..Len(ms) : ms[k] /= queue[from + k - 1]

\* C7: in CheckBlockData with non-empty input, bytes that fail to deserialize give
\* an error, and a block that deserializes but whose declared L1-message list does
\* not match the local queue gives valid = false with no error.
C7_DecodeErrorVsInvalid ==
    (res.op = "Check" /\ syncer = "ptr" /\ NonEmptyIn)
        => (/\ ~(res.bmOk /\ res.nbmOk) => res.err = "Decode"
            /\ (res.bmOk /\ res.nbmOk /\ DeclaredListMismatch)
                  => (res.err = "nil" /\ ~res.valid))

\* the messages the queue held, when the call started, at the indices
\* latestProcessedL1Index+1 .. latestProcessedL1Index+maxL1MsgNumPerBlock
PendingSlice ==
    LET from == res.pre.idx + 1
        to == res.pre.idx + maxL1MsgNumPerBlock
        hi == IF to < res.pre.qlen THEN to ELSE res.pre.qlen
    IN  [k \in 1..(IF hi < from THEN 0 ELSE hi - from + 1) |-> queue[from + k - 1]]

\* C8: RequestBlockData with a Syncer asks it for exactly the indices
\* latestProcessedL1Index+1 .. latestProcessedL1Index+maxL1MsgNumPerBlock, hands
\* the messages it gets to the assemble call in queue order, and records that
\* list in the returned payload; with 3 queued messages, cursor 0 and a maximum
\* of 2 the payload holds the first 2 messages in order.
C8_RequestReadsPendingRange ==
    (res.op = "Request" /\ syncer = "ptr")
        => (/\ res.read = <<res.pre.idx + 1, res.pre.idx + maxL1MsgNumPerBlock>>
            /\ res.calls.assemble = 1
            /\ res.assembled = WrapL1Messages(PendingSlice)
            /\ Len(res.txs) > 0
                  => (/\ res.nbm.L1Messages = PendingSlice
                      /\ NonBLSUnmarshal(res.zkConfig).v.L1Messages = PendingSlice)
            /\ (/\ Len(res.txs) > 0
                /\ res.pre.qlen = 3 /\ res.pre.idx = 0 /\ maxL1MsgNumPerBlock = 2)
                  => res.nbm.L1Messages = <<queue[1], queue[2]>>)

\* 3 queued messages, cursor 0, maximum 2: a proposal with the first 2 messages
C8_Witness ==
    /\ res.op = "Request" /\ syncer = "ptr"
    /\ res.err = "nil" /\ Len(res.txs) > 0
    /\ res.pre.qlen = 3 /\ res.pre.idx = 0 /\ maxL1MsgNumPerBlock = 2
    /\ res.nbm.L1Messages = <<L1Msg(1, QueueData(1)), L1Msg(2, QueueData(2))>>

\* the last call was handed an empty transaction list or an absent header or payload
EmptyIn ==
    /\ Len(res.in) = 3
    /\ (Len(res.in[1]) = 0 \/ res.in[2] = NilBytes \/ res.in[3] = NilBytes)

\* C9: CheckBlockData with an empty transaction list or an absent header or payload
\* answers valid = false with no error, decodes nothing and does not call the
\* engine, with or without a Syncer.
C9_CheckEmptyShortCircuit ==
    (res.op = "Check" /\ EmptyIn)
        => (/\ ~res.valid
            /\ res.err = "nil"
            /\ ~res.bmOk /\ ~res.nbmOk
            /\ res.calls = NoCalls)

\* C10: when the candidate the engine assembled holds no transactions,
\* RequestBlockData returns empty txs, header and payload with no error and
\* leaves latestProcessedL1Index unchanged.
C10_EmptyCandidateNoProposal ==
    (res.op = "Request" /\ res.candOk /\ Len(res.candTxs) = 0)
        => (/\ res.err = "nil"
            /\ res.txs = <<>> /\ res.l2Config = NilBytes /\ res.zkConfig = NilBytes
            /\ StateUntouched)

\* the engine left out even the L1 messages it was handed
C10_Witness ==
    /\ res.op = "Request" /\ res.candOk /\ Len(res.candTxs) = 0
    /\ Len(res.assembled) > 0
    /\ res.err = "nil" /\ res.txs = <<>>

\* C11: a DeliverBlock with an empty transaction list or an absent header or
\* payload, whose height query succeeds, returns the engine's current height with
\* no error, makes no import call and leaves latestProcessedL1Index unchanged.
C11_DeliverEmptyIsNoOp ==
    (res.op = "Deliver" /\ EmptyIn /\ res.rpcErr /= "blockNumber")
        => (/\ res.err = "nil"
            /\ res.ret = res.pre.height
            /\ res.calls.blockNumber = 1 /\ res.calls.newL2Block = 0
            /\ ~res.bmOk /\ ~res.nbmOk
            /\ StateUntouched
            /\ Len(imported) = res.pre.height)

\* transactions given but the header absent, at height 1: height 1 is confirmed
C11_Witness ==
    /\ res.op = "Deliver"
    /\ Len(res.in) = 3 /\ Len(res.in[1]) > 0 /\ res.in[3] = NilBytes
    /\ res.pre.height = 1
    /\ res.err = "nil" /\ res.ret = 1

\* C15: latestProcessedL1Index never decreases, and every step that changes it is
\* a DeliverBlock whose import call succeeded; RequestBlockData, CheckBlockData
\* and a DeliverBlock that returns early leave it unchanged.
C15_CursorMonotone ==
    [][/\ latestProcessedL1Index' >= latestProcessedL1Index
       /\ latestProcessedL1Index' /= latestProcessedL1Index
             => (/\ res'.op = "Deliver"
                 /\ res'.calls.newL2Block = 1
                 /\ res'.err = "nil"
                 /\ res'.rpcErr = "none")]_vars

\* a delivery moved the cursor forward
C15_Witness == Delivered /\ latestProcessedL1Index > res.pre.idx

\* C16: the header numbers of the blocks the engine imported are consecutive,
\* starting one above the initial height; a rejected DeliverBlock leaves the
\* engine height and the cursor where they were, and a delivery of the next
\* height is accepted afterwards.
C16_GaplessImports ==
    /\ \A i \in 1..Len(imported) :
          imported[i] = (IF i = 1 THEN 0 ELSE imported[i - 1]) + 1
    /\ (res.op = "Deliver" /\ res.err /= "nil")
          => (/\ StateUntouched
              /\ Len(imported) = res.pre.height
              /\ LET r == DeliverResult(<<L2Tx>>, NonBLSMarshal(Payload(<<>>)),
                                        BLSMarshal(Header(res.pre.height + 1)),
                                        [height |-> TRUE, import |-> TRUE])
                 IN  Imported(r) /\ r.bm.Number = res.pre.height + 1)

\* blocks 1 and 2 were imported, in that order
C16_Witness == Delivered /\ imported = <<1, 2>>

\* C17: on an Executor with a Syncer, latestProcessedL1Index is at most the
\* highest index present in the message queue.
C17_CursorWithinQueue ==
    syncer = "ptr" => latestProcessedL1Index <= Len(queue)

\* C19: one invocation issues each engine call at most once, and a failed engine
\* call ends that invocation with the call's error and latestProcessedL1Index
\* unchanged.
C19_NoRetry ==
    /\ \A c \in DOMAIN res.calls : res.calls[c] <= 1
    /\ res.rpcErr /= "none"
          => (/\ res.calls[res.rpcErr] = 1
              /\ res.err = (CASE res.rpcErr = "assemble" -> "Assemble"
                               [] res.rpcErr = "validate" -> "Validate"
                               [] res.rpcErr = "blockNumber" -> "BlockNumber"
                               [] res.rpcErr = "newL2Block" -> "Import")
              /\ ~res.valid /\ res.txs = <<>>
              /\ StateUntouched
              /\ Len(imported) = res.pre.height)

\* the import call failed once and its error came back
C19_Witness ==
    /\ res.op = "Deliver" /\ res.rpcErr = "newL2Block"
    /\ res.calls.newL2Block = 1 /\ res.err = "Import"

\* ---------------------------------------------------- claims on the decoder
\* the length word of the layout obeys the length-word rule, over the integers
LenRuleHolds(sh) ==
    /\ sh.len.over = 0
    /\ sh.len.n /= -1
    /\ sh.len.n <= sh.D - 64
    /\ sh.len.n + 32 > sh.D - 64

\* the first check, in the documented order, the layout fails
FirstFailing(sh) ==
    CASE sh.nTopics /= 4 -> "topics"
      [] ~sh.sel -> "selector"
      [] sh.D < 64 \/ sh.D % 32 /= 0 -> "datalength"
      [] sh.off /= WordShape(0, 32) -> "offset"
      [] ~LenRuleHolds(sh) -> "length"
      [] sh.version /= 0 -> "version"
      [] OTHER -> "none"

\* the check a result is a rejection for
Rejection(o) ==
    CASE o.kind = "msg" -> "none"
      [] o.kind = "panic" -> "panic"
      [] o.err \in {"short", "words"} -> "datalength"
      [] OTHER -> o.err

Decoded == out.kind /= "none"

\* a log failing one of the six checks is rejected for the first it fails
FirstFailingRejects ==
    (Decoded /\ FirstFailing(shape) /= "none") => Rejection(out) = FirstFailing(shape)

\* C12, as stated: the first failing check of topic count, selector, data length,
\* offset word, length word, version decides the rejection, and a change of the
\* topic count, offset word, length word or version topic of an accepted log is
\* rejected for the changed field
C12_AnyChangeRejected ==
    /\ FirstFailingRejects
    /\ (Decoded /\ changed /= "none") => Rejection(out) = changed

\* C12, amended: the first failing check decides the rejection; a changed topic
\* count, offset word or version topic is rejected for the changed field; a
\* changed length word is rejected for the length word exactly when the new value
\* breaks the length-word rule
C12_ChecksInOrder ==
    /\ FirstFailingRejects
    /\ (Decoded /\ changed \in {"topics", "offset", "version"}) => Rejection(out) = changed
    /\ (Decoded /\ changed = "length") =>
            (Rejection(out) = "length" <=> ~LenRuleHolds(shape))

C12_Witness ==
    \/ Decoded /\ changed = "length" /\ out.kind = "msg"
    \/ Decoded /\ changed = "none" /\ shape.version /= 0 /\ shape.D = 63

\* the creation flag of the log: the byte at offset 72 of the payload, which
\* starts at offset 64 of the data
FlagByte == ev.Data[64 + 72 + 1]

\* C13: a decoded version-0 message has its recipient set, to the address of the
\* `to` topic, exactly when the creation flag byte is 0
C13_FlagPolarity ==
    (Decoded /\ out.kind = "msg") =>
        /\ (FlagByte = 0) <=> (out.msg.To /= <<>>)
        /\ out.msg.To /= <<>> => out.msg.To = <<ToTopic[2]>>

C13_Witness == Decoded /\ out.kind = "msg" /\ FlagByte = 255 /\ out.msg.To = <<>>

\* the log passes the checks in front of the length-word rule
PassesEarlierChecks ==
    FirstFailing(shape) \notin {"topics", "selector", "datalength", "offset"}

\* C18: a log that passes the earlier checks passes the length-word check exactly
\* when L fits 64 bits, L <= D - 64 and L + 32 > D - 64, and the payload decoded
\* is bytes [64, 64 + L) of the data
C18_LengthWordRule ==
    (Decoded /\ PassesEarlierChecks) =>
        /\ (Rejection(out) /= "length") <=> LenRuleHolds(shape)
        /\ out.kind = "msg" =>
              /\ out.msg.Value = BytesToInt(SubSeq(ev.Data, 64 + 33, 64 + 64))
              /\ out.msg.Gas = BytesToInt(SubSeq(ev.Data, 64 + 65, 64 + 72))
              /\ out.msg.Data = SubSeq(ev.Data, 64 + 74, 64 + shape.len.n)

C18_Witness ==
    /\ Decoded /\ out.kind = "msg"
    /\ shape.D = 160 /\ shape.len.n = 74 /\ Len(out.msg.Data) = 1

\* C20: the decoder returns a message or an error and never reads out of bounds;
\* a version-0 payload under 73 bytes is an error, one of 73 bytes decodes with
\* empty call data
C20_DecoderTotal ==
    Decoded =>
        /\ out.kind \in {"msg", "err"}
        /\ (FirstFailing(shape) = "none" /\ shape.len.n < 73) =>
                (out.kind = "err" /\ out.err = "v0:v0length")
        /\ (FirstFailing(shape) = "none" /\ shape.len.n = 73) =>
                (out.kind = "msg" /\ out.msg.Data = <<>>)

C20_Witness ==
    \/ Decoded /\ shape.len.n = 73 /\ out.kind = "msg"
    \/ Decoded /\ shape.len.n = 72 /\ out.kind = "err" /\ out.err = "v0:v0length"

\* ------------------------------------------------- claims on the derivation
\* the receipt (1 or 2) log p of the batch is in
ReceiptOf(p) == IF p <= shape.cut THEN 1 ELSE 2

\* log p is handed to the decoder: a deposit log of a successful receipt
Handed(p) ==
    /\ shape.status[ReceiptOf(p)] = ReceiptStatusSuccessful
    /\ shape.kinds[p] \in {"good", "badOffset", "badVersion"}

\* the positions of the batch, in receipt order and then log order
Positions == [p \in 1..Len(shape.kinds) |-> p]
WellFormed(p) == Handed(p) /\ shape.kinds[p] = "good"
Malformed(p) == Handed(p) /\ shape.kinds[p] /= "good"

\* where in its receipt (from 0) log p is
IndexInReceipt(p) == IF p <= shape.cut THEN p - 1 ELSE p - shape.cut - 1

\* C14: deriving a batch gives one message for every deposit log that decodes,
\* in the order of the batch, and one failure for every deposit log that does
\* not, whatever precedes it; 3 well-formed deposits and 1 log with a wrong offset
\* word give 3 messages and 1 failure
C14_BatchNeverAborts ==
    derived.done =>
        LET good == SelectSeq(Positions, WellFormed)
            bad == SelectSeq(Positions, Malformed)
        IN  /\ Len(derived.out) = Len(good)
            /\ \A k \in 1..Len(good) :
                   /\ derived.out[k].L1TxHash = good[k]
                   /\ derived.out[k].L1MessageTx.Data = <<1 + 73>>
            /\ Len(derived.result) = Len(bad)
            /\ \A k \in 1..Len(bad) :
                   /\ derived.result[k].receipt = ReceiptOf(bad[k]) - 1
                   /\ derived.result[k].log = IndexInReceipt(bad[k])
                   /\ derived.result[k].err =
                          (IF shape.kinds[bad[k]] = "badOffset" THEN "offset" ELSE "version")

C14_Witness ==
    /\ derived.done
    /\ shape.kinds = <<"good", "badOffset", "good", "good">>
    /\ shape.status = <<ReceiptStatusSuccessful, ReceiptStatusSuccessful>>
    /\ shape.cut = 2
    /\ Len(derived.out) = 3
    /\ Len(derived.result) = 1

\* C21: a decoded message has queue index 0 whatever the log holds, and the
\* message derived from the log in a batch is the decoded one, queue index 0
\* included
C21_QueueIndexPlaceholder ==
    /\ (Decoded /\ out.kind = "msg") => out.msg.QueueIndex = 0
    /\ derived.done =>
           \A k \in 1..Len(derived.out) :
              /\ derived.out[k].L1MessageTx.QueueIndex = 0
              /\ derived.out[k].L1MessageTx = out.msg

C21_Witness ==
    /\ derived.done
    /\ Len(derived.out) = 1
    /\ shape.len.n = 96 /\ shape.flag = 255
    /\ ev.Data[64 + 32] = 3
    /\ derived.out[1].L1MessageTx.QueueIndex = 0

\* log p of the batch, as the derivation was handed it
LogAt(p) == receipts[ReceiptOf(p)].Logs[IndexInReceipt(p) + 1]

\* log p left a message, or a failure entry, in the result
LeftMessage(p) == \E k \in 1..Len(derived.out) : derived.out[k].L1TxHash = p
LeftFailure(p) ==
    \E k \in 1..Len(derived.result) :
        /\ derived.result[k].receipt = ReceiptOf(p) - 1
        /\ derived.result[k].log = IndexInReceipt(p)

\* log p is no deposit event of a successful transaction
NotADeposit(p) ==
    \/ shape.status[ReceiptOf(p)] /= ReceiptStatusSuccessful
    \/ shape.kinds[p] \in {"foreign", "noTopics", "otherEvent"}

\* C22: a log of an unsuccessful receipt, of another contract, without topics or
\* of another event leaves neither a message nor a failure entry, and every
\* message carries the block number and transaction hash of the log it is from
C22_OnlyDepositEvents ==
    derived.done =>
        /\ \A p \in 1..Len(shape.kinds) :
               NotADeposit(p) => (~LeftMessage(p) /\ ~LeftFailure(p))
        /\ \A k \in 1..Len(derived.out) :
               LET p == derived.out[k].L1TxHash
               IN  /\ p \in 1..Len(shape.kinds)
                   /\ shape.kinds[p] = "good"
                   /\ derived.out[k].L1Height = LogAt(p).BlockNumber
                   /\ derived.out[k].L1Height = 100 + p

C22_Witness ==
    /\ derived.done
    /\ shape.kinds = <<"foreign", "good", "noTopics", "good">>
    /\ shape.cut = 2
    /\ shape.status = <<ReceiptStatusSuccessful, ReceiptStatusFailed>>
    /\ Len(derived.out) = 1
    /\ derived.out[1].L1TxHash = 2 /\ derived.out[1].L1Height = 102
    /\ derived.result = <<>>


====
